---- MODULE Spec2Model ----
(***************************************************************************)
(* Telemetry relay of WebRepo/server: the latest-snapshot store, the       *)
(* subscriber registry with its bounded queues, the ingest broadcast and   *)
(* the SSE stream generator (info_exchange.py; app.py carries the same     *)
(* handlers), with the dual-mode authentication of auth.py.                *)
(*                                                                         *)
(* Scheduling: the handlers are asyncio coroutines on one event loop, so   *)
(* a task runs without interruption between two suspension points.  The    *)
(* suspension points are the database lookup of the API key, the awaits    *)
(* request.is_disconnected() and asyncio.wait_for(queue.get()), and the    *)
(* yields of the generator.  "async with _subscribers_lock" does not       *)
(* suspend when the lock is free, and no holder of the lock awaits inside  *)
(* it, so the lock is free whenever a task is scheduled: the guarded       *)
(* blocks run inside the step that reaches them.                           *)
(***************************************************************************)
EXTENDS Integers, Sequences, FiniteSets, TLC

\* ---------------------------------------------------------------- bounds
MaxPub == 1
Horizon == 2
OrMaxPub == 2
OrHorizon == 2
OvMaxPub == 11
KaMaxPub == 1
KaHorizon == 17
AuMaxPub == 1
LvMaxPub == 12
ClMaxPub == 1
ClHorizon == 3
UnMaxPub == 1
DlMaxPub == 3
DlHorizon == 3

\* wall clock (time.time()) when the process starts; any epoch value >= 15
StartTime == 20

\* ------------------------------------------------------ program constants
QueueMaxSize == 10
WaitTimeout == 2
KeepaliveInterval == 15

\* ------------------------------------------------------------ value space
None == "None"
NoTime == -1
Absent == "absent"

Sessions == {"s1", "s2"}
PubSlots == {"p1", "p2"}
Readers == {"r1"}
Payloads == {"{}", "{v:1}"}

\* hashlib.sha256(api_key).hexdigest(): injective on the keys considered,
\* never the empty string
Sha256(key) == <<"#">> \o key

NoHash == <<>>
NoKey == <<"None">>

\* rows of the user table (models.User)
NoUser == [email |-> "None", api_key_prefix |-> <<>>, api_key_hash |-> NoHash, is_active |-> FALSE]
Robot == [email |-> "robot@lab", api_key_prefix |-> <<"a">>,
          api_key_hash |-> Sha256(<<"a", ".", "s">>), is_active |-> TRUE]
Retired == [email |-> "retired@lab", api_key_prefix |-> <<"b">>,
            api_key_hash |-> Sha256(<<"b", ".", "s">>), is_active |-> FALSE]
Viewer == [email |-> "viewer@lab", api_key_prefix |-> <<"c">>,
           api_key_hash |-> NoHash, is_active |-> TRUE]
Users == {Robot, Retired, Viewer}

\* values of the X-API-Key header: absent, empty, without a dot, with an
\* empty prefix, issued keys, a wrong secret, an unknown prefix
ApiKeys == {NoKey, <<>>, <<"a">>, <<".", "s">>, <<"a", ".", "s">>, <<"a", ".", "x">>,
            <<"b", ".", "s">>, <<"c", ".", "s">>, <<"z", ".", "s">>}
\* result of current_optional_user: no session, an active or an inactive user
BrowserUsers == {NoUser, Viewer, Retired}

\* latest_payload .. now are the program's state, gone the stream sessions
\* whose transport has disconnected; emitted is the output of
\* each stream, and offered, accepted, npub, published, exitPath, lastEmitAt
\* and lastKaAt record what happened, for the properties only; solo[s] is
\* the queue of session s in the run of the same publishes and the same
\* steps of s in which s is the only subscriber; probe is the outcome of
\* the latest removal of a queue that was not in the registry, and
\* leftPending[s] tells whether s left its loop with messages in its queue.
\* lock_holders is the set of tasks inside "async with _subscribers_lock".
VARIABLES latest_payload, latest_received_at, subscribers, queue,
          pc, cred, last_keepalive, deadline,
          pub, rd, now, gone,
          emitted, offered, accepted, npub, published, exitPath, lastEmitAt, lastKaAt,
          solo, probe, leftPending, lock_holders

relay == <<latest_payload, latest_received_at, subscribers, queue>>
ghost == <<emitted, offered, accepted, npub, published, exitPath, lastEmitAt, lastKaAt,
           solo, leftPending>>
vars == <<latest_payload, latest_received_at, subscribers, queue,
          pc, cred, last_keepalive, deadline, pub, rd, now, gone,
          emitted, offered, accepted, npub, published, exitPath, lastEmitAt, lastKaAt,
          solo, probe, leftPending, lock_holders>>

NoBody == [received_at |-> NoTime, publisher |-> Absent, payload |-> None]
NoCred == [browser_user |-> NoUser, api_key |-> NoKey]
NoProbe == [handle |-> "None", before |-> {}, after |-> {}, raised |-> FALSE, times |-> 0]

Init ==
    /\ latest_payload = None
    /\ latest_received_at = NoTime
    /\ subscribers = {}
    /\ queue = [s \in Sessions |-> <<>>]
    /\ pc = [s \in Sessions |-> "idle"]
    /\ cred = [s \in Sessions |-> NoCred]
    /\ last_keepalive = [s \in Sessions |-> 0]
    /\ deadline = [s \in Sessions |-> 0]
    /\ pub = [p \in PubSlots |-> [pc |-> "idle", api_key |-> NoKey, payload |-> None, status |-> 0]]
    /\ rd = [r \in Readers |-> [pc |-> "idle", browser_user |-> NoUser, api_key |-> NoKey,
                                status |-> 0, body |-> NoBody]]
    /\ now = StartTime
    /\ gone = {}
    /\ emitted = [s \in Sessions |-> <<>>]
    /\ offered = [s \in Sessions |-> <<>>]
    /\ accepted = [s \in Sessions |-> <<>>]
    /\ npub = 0
    /\ published = NoBody
    /\ exitPath = [s \in Sessions |-> "none"]
    /\ lastEmitAt = [s \in Sessions |-> NoTime]
    /\ lastKaAt = [s \in Sessions |-> NoTime]
    /\ solo = [s \in Sessions |-> <<>>]
    /\ probe = NoProbe
    /\ leftPending = [s \in Sessions |-> FALSE]
    /\ lock_holders = {}

\* ---------------------------------------------------------------- auth.py
Falsy(str) == str = NoKey \/ str = <<>>

HasDot(api_key) == \E i \in 1..Len(api_key) : api_key[i] = "."

\* api_key.split(".", 1)[0]
SplitPrefix(api_key) ==
    LET i == CHOOSE k \in 1..Len(api_key) :
                 api_key[k] = "." /\ \A j \in 1..(k - 1) : api_key[j] # "."
    IN SubSeq(api_key, 1, i - 1)

\* select(User).where(User.api_key_prefix == prefix) ... scalar_one_or_none()
LookupPrefix(prefix) ==
    IF \E u \in Users : u.api_key_prefix = prefix
    THEN CHOOSE u \in Users : u.api_key_prefix = prefix
    ELSE NoUser

\* mutant: the digest comparison always succeeds
CompareDigestSkipped(a, b) == TRUE

CompareDigest(a, b) == a = b

authenticate_slave_api_key(api_key) ==
    IF Falsy(api_key) THEN NoUser
    ELSE IF ~HasDot(api_key) THEN NoUser
    ELSE IF Falsy(SplitPrefix(api_key)) THEN NoUser
    ELSE LET user == LookupPrefix(SplitPrefix(api_key)) IN
         IF user = NoUser \/ Falsy(user.api_key_hash) THEN NoUser
         ELSE IF CompareDigest(Sha256(api_key), user.api_key_hash) THEN user
         ELSE NoUser

\* mutant: the active flag is not looked at
IsActiveIgnored(user) == user # NoUser

\* "user is not None and getattr(user, "is_active", False)"
IsActive(user) == user # NoUser /\ user.is_active

\* NoUser stands for the 401 raised at the end
require_active_user_or_api_key(browser_user, api_key) ==
    IF IsActive(browser_user) THEN browser_user
    ELSE LET api_user == authenticate_slave_api_key(api_key) IN
         IF IsActive(api_user) THEN api_user
         ELSE NoUser

\* ------------------------------------------------------- info_exchange.py
\* ingest line 36: "if not user"
IngestAuthorized(user) == user # NoUser

\* mutant: "payload or None", the empty object stored as no payload
StorePayloadOrNone(payload) == IF payload = "{}" THEN None ELSE payload

\* line 40: the payload is stored as received
StorePayload(payload) == payload

\* mutant: the envelope is serialised from the store before the store is
\* overwritten
EnvelopeFromOldStore(received_at, user, payload) ==
    [received_at |-> latest_received_at, publisher |-> user.email, payload |-> latest_payload]

\* json.dumps of the broadcast envelope
Envelope(received_at, user, payload) ==
    [received_at |-> received_at, publisher |-> user.email, payload |-> payload]

\* json.dumps of the initial snapshot: no publisher key
InitialSnapshot(received_at, payload) ==
    [received_at |-> received_at, publisher |-> Absent, payload |-> payload]

\* mutant: off by one, the queue takes an eleventh message
FullOffByOne(q) == Len(q) > QueueMaxSize

\* asyncio.Queue.full()
Full(q) == Len(q) >= QueueMaxSize

\* mutant: appendleft instead of append
PutNowaitLeft(q, message) == <<message>> \o q

\* mutant: the message is put twice
PutNowaitTwice(q, message) == Append(Append(q, message), message)

\* mutant: taking a message off the queue loses the one behind it
QueueRestSkip(q) == IF Len(q) > 1 THEN Tail(Tail(q)) ELSE Tail(q)

\* asyncio.Queue.put_nowait / get_nowait on the underlying deque
PutNowait(q, message) == Append(q, message)
QueueFront(q) == Head(q)
QueueRest(q) == Tail(q)

\* mutant: a full queue evicts its oldest message to take the new one
OfferEvictOldest(q, message) ==
    IF Len(q) >= QueueMaxSize THEN Append(Tail(q), message) ELSE Append(q, message)

\* the loop body of the broadcast for one queue
Offer(q, message) == IF Full(q) THEN q ELSE PutNowait(q, message)

\* mutant: the lock is not released at the end of the block
ReleaseForgotten(holders, task) == holders

\* asyncio.Lock of line 18: acquire() returns at once when the lock is free
\* and suspends the task otherwise; "async with" releases at the end of
\* its block
LockFree(holders) == holders = {}
Acquire(holders, task) == holders \cup {task}
Release(holders, task) == holders \ {task}

\* lines 52-57, 65-66, 98-99: each "async with" block holds only statements
\* that do not await, so it is entered and left inside one step of its task
GuardedBlock(holders, task) == Release(Acquire(holders, task), task)

RECURSIVE BroadcastLoop(_, _, _)

\* mutant: "break" instead of "continue", a full queue ends the loop
AfterOfferBreak(wasFull, qs, rest, message) ==
    IF wasFull THEN qs ELSE BroadcastLoop(qs, rest, message)

\* lines 55-57: after "continue" as after put_nowait, the next queue
AfterOffer(wasFull, qs, rest, message) == BroadcastLoop(qs, rest, message)

\* lines 53-57: the for loop over the registered queues; the order in which
\* a set is iterated is arbitrary, and the result does not depend on it
BroadcastLoop(qs, targets, message) ==
    IF targets = {} THEN qs
    ELSE LET s == CHOOSE t \in targets : TRUE IN
         AfterOffer(Full(qs[s]), [qs EXCEPT ![s] = Offer(qs[s], message)],
                    targets \ {s}, message)

\* mutant: the broadcast reaches nobody
BroadcastTargetsNone(subs) == {}

\* mutant: the broadcast reaches every queue, registered or not
BroadcastTargetsAll(subs) == Sessions

\* line 53: "list(_subscribers)"
BroadcastTargets(subs) == subs

\* mutant: a blocking put, the broadcast waits while a target queue is full
BroadcastReadyBlocking(qs, targets) == \A s \in targets : ~Full(qs[s])

\* lines 55-57: a full queue is skipped and put_nowait never waits, so the
\* broadcast goes through whatever the queues hold
BroadcastReady(qs, targets) == TRUE

\* mutants: the queue is not added; the finally block does not remove it
RegisterForgotten(subs, s) == subs
DiscardForgotten(subs, s) == subs

\* _subscribers.add / _subscribers.discard
Register(subs, s) == subs \cup {s}
Discard(subs, s) == subs \ {s}

\* mutant: set.remove, which raises KeyError for an element not in the set
RemoveRaises(subs, s) == s \notin subs

\* line 99: set.discard raises nothing, whether the element is in the set or not
DiscardRaises(subs, s) == FALSE

\* mutant: the receipt time returned is not the stored one
LatestBodyStale(payload, received_at) ==
    IF payload = None
    THEN [received_at |-> NoTime, publisher |-> Absent, payload |-> None]
    ELSE [received_at |-> received_at - 1, publisher |-> Absent, payload |-> payload]

\* mutant: "if not _latest_payload", the empty object taken for no snapshot
LatestBodyFalsy(payload, received_at) ==
    IF payload = None \/ payload = "{}"
    THEN [received_at |-> NoTime, publisher |-> Absent, payload |-> None]
    ELSE [received_at |-> received_at, publisher |-> Absent, payload |-> payload]

LatestBody(payload, received_at) ==
    IF payload = None
    THEN [received_at |-> NoTime, publisher |-> Absent, payload |-> None]
    ELSE [received_at |-> received_at, publisher |-> Absent, payload |-> payload]

\* mutant: the snapshot is never sent at start-up
HasSnapshotNever(payload) == FALSE

\* line 72: "_latest_payload is not None"
HasSnapshot(payload) == payload # None

DataEvent(message, origin) == [kind |-> "data", body |-> message, origin |-> origin]
KeepaliveEvent == [kind |-> "keepalive", body |-> NoBody, origin |-> "timer"]

\* time.time() advances
Tick(h) ==
    /\ now < StartTime + h
    /\ now' = now + 1
    /\ UNCHANGED <<relay, pc, cred, last_keepalive, deadline, pub, rd, gone, probe, lock_holders, ghost>>

\* POST /api/ingest arrives: header read, database lookup awaited
IngestRequest(p, api_key, payload) ==
    /\ pub[p].pc = "idle"
    /\ pub' = [pub EXCEPT ![p] = [pc |-> "auth", api_key |-> api_key,
                                  payload |-> payload, status |-> 0]]
    /\ UNCHANGED <<relay, pc, cred, last_keepalive, deadline, rd, now, gone, probe, lock_holders, ghost>>

\* ingest from the return of the lookup to the response
IngestResume(p, maxPub) ==
    /\ pub[p].pc = "auth"
    /\ LET user == authenticate_slave_api_key(pub[p].api_key) IN
       IF ~IngestAuthorized(user)
       THEN /\ pub' = [pub EXCEPT ![p] = [pc |-> "idle", api_key |-> NoKey,
                                       payload |-> None, status |-> 401]]
            /\ UNCHANGED <<relay, offered, accepted, npub, published, solo, lock_holders>>
       ELSE /\ npub < maxPub
            /\ LockFree(lock_holders)
            /\ lock_holders' = GuardedBlock(lock_holders, p)
            /\ BroadcastReady(queue, BroadcastTargets(subscribers))
            /\ latest_payload' = StorePayload(pub[p].payload)
            /\ latest_received_at' = now
            /\ LET message == Envelope(now, user, pub[p].payload) IN
               /\ queue' = BroadcastLoop(queue, BroadcastTargets(subscribers), message)
               /\ solo' = [s \in Sessions |->
                             BroadcastLoop(solo, BroadcastTargets(subscribers \cap {s}),
                                           message)[s]]
               /\ offered' = [s \in Sessions |->
                                IF s \in subscribers THEN Append(offered[s], message)
                                ELSE offered[s]]
               /\ accepted' = [s \in Sessions |->
                                 IF s \in subscribers /\ Len(queue[s]) < QueueMaxSize
                                 THEN Append(accepted[s], message)
                                 ELSE accepted[s]]
            /\ npub' = npub + 1
            /\ published' = [received_at |-> now, publisher |-> user.email,
                              payload |-> pub[p].payload]
            /\ subscribers' = subscribers
            /\ pub' = [pub EXCEPT ![p] = [pc |-> "idle", api_key |-> NoKey,
                                       payload |-> None, status |-> 200]]
    /\ UNCHANGED <<pc, cred, last_keepalive, deadline, rd, now, gone, probe,
                   emitted, exitPath, leftPending, lastEmitAt, lastKaAt>>

\* GET /api/latest arrives: the dependency awaits the lookup
LatestRequest(r, browser_user, api_key) ==
    /\ rd[r].pc = "idle"
    /\ rd' = [rd EXCEPT ![r] = [pc |-> "auth", browser_user |-> browser_user,
                                api_key |-> api_key, status |-> 0, body |-> NoBody]]
    /\ UNCHANGED <<relay, pc, cred, last_keepalive, deadline, pub, now, gone, probe, lock_holders, ghost>>

LatestResume(r) ==
    /\ rd[r].pc = "auth"
    /\ LET user == require_active_user_or_api_key(rd[r].browser_user, rd[r].api_key) IN
       IF user = NoUser
       THEN rd' = [rd EXCEPT ![r] = [pc |-> "idle", browser_user |-> NoUser, api_key |-> NoKey,
                                     status |-> 401, body |-> NoBody]]
       ELSE rd' = [rd EXCEPT ![r] = [pc |-> "idle", browser_user |-> NoUser, api_key |-> NoKey,
                                     status |-> 200,
                                     body |-> LatestBody(latest_payload, latest_received_at)]]
    /\ UNCHANGED <<relay, pc, cred, last_keepalive, deadline, pub, now, gone, probe, lock_holders, ghost>>

\* GET /api/stream arrives
StreamRequest(s, browser_user, api_key) ==
    /\ pc[s] = "idle"
    /\ pc' = [pc EXCEPT ![s] = "auth"]
    /\ cred' = [cred EXCEPT ![s] = [browser_user |-> browser_user, api_key |-> api_key]]
    /\ UNCHANGED <<relay, last_keepalive, deadline, pub, rd, now, gone, probe, lock_holders, ghost>>

\* the dependency answers; on success event_generator runs to its first
\* suspension: queue created and registered, last_keepalive = 0.0, initial
\* snapshot yielded when there is one, else the first is_disconnected()
StreamStart(s) ==
    /\ pc[s] = "auth"
    /\ LET user == require_active_user_or_api_key(cred[s].browser_user, cred[s].api_key) IN
       IF user = NoUser
       THEN /\ pc' = [pc EXCEPT ![s] = "rejected"]
            /\ UNCHANGED <<subscribers, queue, last_keepalive, emitted, lastEmitAt, solo,
                           lock_holders>>
       ELSE /\ LockFree(lock_holders)
            /\ lock_holders' = GuardedBlock(lock_holders, s)
            /\ queue' = [queue EXCEPT ![s] = <<>>]
            /\ solo' = [solo EXCEPT ![s] = <<>>]
            /\ subscribers' = Register(subscribers, s)
            /\ last_keepalive' = [last_keepalive EXCEPT ![s] = 0]
            /\ lastEmitAt' = [lastEmitAt EXCEPT ![s] = now]
            /\ IF HasSnapshot(latest_payload)
               THEN /\ emitted' = [emitted EXCEPT ![s] = Append(@,
                                     DataEvent(InitialSnapshot(latest_received_at, latest_payload),
                                               "initial"))]
                    /\ pc' = [pc EXCEPT ![s] = "yield_init"]
               ELSE /\ emitted' = emitted
                    /\ pc' = [pc EXCEPT ![s] = "check"]
    /\ cred' = [cred EXCEPT ![s] = NoCred]
    /\ UNCHANGED <<latest_payload, latest_received_at, deadline, pub, rd, now, gone, probe,
                   offered, accepted, npub, published, exitPath, leftPending, lastKaAt>>

\* mutant: the messages still in the queue are sent on the way out
EmitAfterLoopDrain(q) == [i \in 1..Len(q) |-> [kind |-> "data", body |-> q[i], origin |-> "queue"]]

\* lines 82, 90, 96-99: "break" leaves the loop for the finally block, which
\* yields nothing; what is left in the queue is not read
EmitAfterLoop(q) == <<>>

\* the finally block; the generator is finished after it: its queue and the
\* other locals are garbage, the response body has ended.  From here on
\* emitted[s] is what the session emits after it left its loop.
Finally(s, path) ==
    /\ LockFree(lock_holders)
    /\ lock_holders' = GuardedBlock(lock_holders, s)
    /\ subscribers' = Discard(subscribers, s)
    /\ pc' = [pc EXCEPT ![s] = "closed"]
    /\ exitPath' = [exitPath EXCEPT ![s] = path]
    /\ deadline' = [deadline EXCEPT ![s] = 0]
    /\ last_keepalive' = [last_keepalive EXCEPT ![s] = 0]
    /\ queue' = [queue EXCEPT ![s] = <<>>]
    /\ emitted' = [emitted EXCEPT ![s] = EmitAfterLoop(queue[s])]
    /\ leftPending' = [leftPending EXCEPT ![s] = queue[s] # <<>>]
    /\ offered' = [offered EXCEPT ![s] = <<>>]
    /\ accepted' = [accepted EXCEPT ![s] = <<>>]
    /\ lastEmitAt' = [lastEmitAt EXCEPT ![s] = NoTime]
    /\ lastKaAt' = [lastKaAt EXCEPT ![s] = NoTime]
    /\ solo' = [solo EXCEPT ![s] = <<>>]
    /\ gone' = gone \ {s}
    /\ UNCHANGED <<latest_payload, latest_received_at, cred, pub, rd, now, npub, published,
                   probe>>

\* the consumer asks for the next event: the generator resumes after a yield
ResumeAfterYield(s) ==
    /\ pc[s] \in {"yield_init", "yield_data", "yield_ka"}
    /\ pc' = [pc EXCEPT ![s] = "check"]
    /\ UNCHANGED <<relay, cred, last_keepalive, deadline, pub, rd, now, gone, probe, lock_holders, ghost>>

\* line 81: is_disconnected() at the top of the loop answers
CheckDisconnected(s, disconnected) ==
    /\ pc[s] = "check"
    /\ IF disconnected
       THEN Finally(s, "disconnect_top")
       ELSE /\ pc' = [pc EXCEPT ![s] = "wait"]
            /\ deadline' = [deadline EXCEPT ![s] = now + WaitTimeout]
            /\ UNCHANGED <<relay, cred, last_keepalive, pub, rd, now, gone, probe, lock_holders, ghost>>

\* line 85-86: queue.get() returns a message, which is yielded
GetMessage(s) ==
    /\ pc[s] = "wait"
    /\ queue[s] # <<>>
    /\ queue' = [queue EXCEPT ![s] = QueueRest(queue[s])]
    /\ solo' = [solo EXCEPT ![s] = IF solo[s] = <<>> THEN <<>> ELSE QueueRest(solo[s])]
    /\ emitted' = [emitted EXCEPT ![s] = Append(@, DataEvent(QueueFront(queue[s]), "queue"))]
    /\ lastEmitAt' = [lastEmitAt EXCEPT ![s] = now]
    /\ pc' = [pc EXCEPT ![s] = "yield_data"]
    /\ deadline' = [deadline EXCEPT ![s] = 0]
    /\ UNCHANGED <<latest_payload, latest_received_at, subscribers, cred, last_keepalive,
                   pub, rd, now, gone, probe, lock_holders, offered, accepted, npub,
                   published, exitPath, leftPending, lastKaAt>>

\* mutant: queue.get() awaited without a timeout
TimedOutNever(t, d) == FALSE

\* line 85: wait_for(..., timeout=2.0) gives up at the deadline
TimedOut(t, d) == t >= d

\* line 87-89: wait_for times out, is_disconnected() is awaited again
WaitTimedOut(s) ==
    /\ pc[s] = "wait"
    /\ queue[s] = <<>>
    /\ TimedOut(now, deadline[s])
    /\ pc' = [pc EXCEPT ![s] = "check2"]
    /\ deadline' = [deadline EXCEPT ![s] = 0]
    /\ UNCHANGED <<relay, cred, last_keepalive, pub, rd, now, gone, probe, lock_holders, ghost>>

\* mutant: a keepalive at every timeout
KeepaliveAlwaysDue(t, last) == TRUE

\* line 92
KeepaliveDue(t, last) == t - last >= KeepaliveInterval

\* mutant: the time of the keepalive is not recorded
RecordKeepaliveForgotten(last, t) == last

\* line 93
RecordKeepalive(last, t) == t

\* line 89-94
AfterTimeout(s, disconnected) ==
    /\ pc[s] = "check2"
    /\ IF disconnected
       THEN Finally(s, "disconnect_timeout")
       ELSE /\ IF KeepaliveDue(now, last_keepalive[s])
               THEN /\ last_keepalive' = [last_keepalive EXCEPT ![s] =
                                             RecordKeepalive(last_keepalive[s], now)]
                    /\ emitted' = [emitted EXCEPT ![s] = Append(@, KeepaliveEvent)]
                    /\ lastEmitAt' = [lastEmitAt EXCEPT ![s] = now]
                    /\ lastKaAt' = [lastKaAt EXCEPT ![s] = now]
                    /\ pc' = [pc EXCEPT ![s] = "yield_ka"]
               ELSE /\ pc' = [pc EXCEPT ![s] = "check"]
                    /\ UNCHANGED <<last_keepalive, emitted, lastEmitAt, lastKaAt>>
            /\ UNCHANGED <<relay, cred, deadline, pub, rd, now, gone, probe, lock_holders,
                           offered, accepted, npub, published, exitPath, leftPending, solo>>

\* line 95-96: the task is cancelled while waiting on the queue
CancelledWhileWaiting(s) ==
    /\ pc[s] = "wait"
    /\ Finally(s, "cancel_wait")

\* the task is cancelled inside is_disconnected(): CancelledError leaves the
\* generator through the finally block
CancelledWhileChecking(s) ==
    /\ pc[s] \in {"check", "check2"}
    /\ Finally(s, "cancel_check")

\* is_disconnected() raises: the error leaves through the finally block
ErrorInLoop(s) ==
    /\ pc[s] \in {"check", "check2"}
    /\ Finally(s, "error")

\* aclose() or a throw while the generator is suspended at a yield
ClosedAtYield(s) ==
    /\ pc[s] \in {"yield_init", "yield_data", "yield_ka"}
    /\ Finally(s, "close_at_yield")

\* the client goes away: from now on is_disconnected() answers True
TransportDisconnects(s) ==
    /\ pc[s] \in {"yield_init", "check", "wait", "yield_data", "check2", "yield_ka"}
    /\ s \notin gone
    /\ gone' = gone \cup {s}
    /\ UNCHANGED <<relay, pc, cred, last_keepalive, deadline, pub, rd, now, probe, lock_holders, ghost>>

\* line 98-99 applied to a queue that is not in the registry: one that was
\* never added, or one already removed, any number of times in a row
DiscardAgain(s) ==
    /\ s \notin subscribers
    /\ LockFree(lock_holders)
    /\ lock_holders' = GuardedBlock(lock_holders, s)
    /\ subscribers' = Discard(subscribers, s)
    /\ probe' = [handle |-> s, before |-> subscribers, after |-> Discard(subscribers, s),
                 raised |-> DiscardRaises(subscribers, s),
                 times |-> IF probe.handle = s /\ probe.times < 2 THEN probe.times + 1
                           ELSE IF probe.handle = s THEN 2 ELSE 1]
    /\ UNCHANGED <<latest_payload, latest_received_at, queue, pc, cred, last_keepalive,
                   deadline, pub, rd, now, gone, ghost>>

PublishNext(P, K, D, maxPub) ==
    \/ \E p \in P, k \in K, d \in D : IngestRequest(p, k, d)
    \/ \E p \in P : IngestResume(p, maxPub)

ReadNext(R, B, K) ==
    \/ \E r \in R, b \in B, k \in K : LatestRequest(r, b, k)
    \/ \E r \in R : LatestResume(r)

StreamNext(S, B, K) ==
    \/ \E s \in S, b \in B, k \in K : StreamRequest(s, b, k)
    \/ \E s \in S : StreamStart(s)
    \/ \E s \in S : ResumeAfterYield(s)
    \/ \E s \in S, x \in BOOLEAN : CheckDisconnected(s, x)
    \/ \E s \in S : GetMessage(s)
    \/ \E s \in S : CancelledWhileWaiting(s)
    \/ \E s \in S : CancelledWhileChecking(s)
    \/ \E s \in S : ErrorInLoop(s)
    \/ \E s \in S : ClosedAtYield(s)

TimeoutNext(S) ==
    \/ \E s \in S : WaitTimedOut(s)
    \/ \E s \in S, x \in BOOLEAN : AfterTimeout(s, x)

RobotKey == <<"a", ".", "s">>
RetiredKey == <<"b", ".", "s">>

\* successive telemetry samples of one publisher
Samples == <<"{n:1}", "{n:2}", "{n:3}", "{n:4}", "{n:5}", "{n:6}", "{n:7}",
             "{n:8}", "{n:9}", "{n:10}", "{n:11}", "{n:12}", "{n:13}">>
NextSample == Samples[(npub % Len(Samples)) + 1]

\* the relay with a publisher and two stream sessions
Next ==
    \/ Tick(Horizon)
    \/ PublishNext({"p1"}, {RobotKey}, {"{}"}, MaxPub)
    \/ StreamNext(Sessions, {Viewer}, {NoKey})
    \/ TimeoutNext(Sessions)
Spec == Init /\ [][Next]_vars

\* two publishers in flight at once, a stream session and a reader
NextOrder ==
    \/ Tick(OrHorizon)
    \/ PublishNext(PubSlots, {RobotKey}, Payloads, OrMaxPub)
    \/ ReadNext(Readers, {Viewer}, {NoKey})
    \/ StreamNext({"s1"}, {Viewer}, {NoKey})
    \/ TimeoutNext({"s1"})
SpecOrder == Init /\ [][NextOrder]_vars

\* a burst: one publisher sends its samples within one unit of time
NextOverflow ==
    \/ PublishNext({"p1"}, {RobotKey}, {NextSample}, OvMaxPub)
    \/ StreamNext(Sessions, {Viewer}, {NoKey})
SpecOverflow == Init /\ [][NextOverflow]_vars

\* a burst towards one stream session, with the event loop resuming ingest
\* once its lookup has returned; the session is not required to make progress
NextLive ==
    \/ PublishNext({"p1"}, {RobotKey}, {NextSample}, LvMaxPub)
    \/ StreamNext({"s1"}, {Viewer}, {NoKey})
SpecLive == Init /\ [][NextLive]_vars /\ WF_vars(IngestResume("p1", LvMaxPub))

\* one session whose transport can disconnect; is_disconnected() answers by
\* the state of the transport.  The event loop runs every task that is
\* ready and time passes: the answer of is_disconnected(), the message or
\* the timeout of wait_for arrive; once the transport is gone the consumer
\* of the generator comes back from its send or is torn down.
NextClose ==
    \/ Tick(ClHorizon)
    \/ PublishNext({"p1"}, {RobotKey}, {"{}"}, ClMaxPub)
    \/ \E b \in {Viewer}, k \in {NoKey} : StreamRequest("s1", b, k)
    \/ StreamStart("s1")
    \/ ResumeAfterYield("s1")
    \/ TransportDisconnects("s1")
    \/ CheckDisconnected("s1", "s1" \in gone)
    \/ GetMessage("s1")
    \/ WaitTimedOut("s1")
    \/ AfterTimeout("s1", "s1" \in gone)
    \/ CancelledWhileWaiting("s1")
    \/ CancelledWhileChecking("s1")
    \/ ErrorInLoop("s1")
    \/ ClosedAtYield("s1")
SpecClose ==
    /\ Init /\ [][NextClose]_vars
    /\ WF_vars(Tick(ClHorizon))
    /\ WF_vars(CheckDisconnected("s1", "s1" \in gone))
    /\ WF_vars(GetMessage("s1"))
    /\ WF_vars(WaitTimedOut("s1"))
    /\ WF_vars(AfterTimeout("s1", "s1" \in gone))
    /\ WF_vars("s1" \in gone /\ (ResumeAfterYield("s1") \/ ClosedAtYield("s1")))

\* one session over several publishes, timeouts and keepalives.  Time
\* passes and the event loop runs every ready task, as in SpecClose; the
\* client keeps reading: after each event the consumer of the generator
\* asks for the next one, or closes it.
NextDeliver ==
    \/ Tick(DlHorizon)
    \/ PublishNext({"p1"}, {RobotKey}, {NextSample}, DlMaxPub)
    \/ \E b \in {Viewer}, k \in {NoKey} : StreamRequest("s1", b, k)
    \/ StreamStart("s1")
    \/ ResumeAfterYield("s1")
    \/ TransportDisconnects("s1")
    \/ CheckDisconnected("s1", "s1" \in gone)
    \/ GetMessage("s1")
    \/ WaitTimedOut("s1")
    \/ AfterTimeout("s1", "s1" \in gone)
    \/ CancelledWhileWaiting("s1")
    \/ CancelledWhileChecking("s1")
    \/ ErrorInLoop("s1")
    \/ ClosedAtYield("s1")
SpecDeliver ==
    /\ Init /\ [][NextDeliver]_vars
    /\ WF_vars(Tick(DlHorizon))
    /\ WF_vars(CheckDisconnected("s1", "s1" \in gone))
    /\ WF_vars(GetMessage("s1"))
    /\ WF_vars(WaitTimedOut("s1"))
    /\ WF_vars(AfterTimeout("s1", "s1" \in gone))
    /\ WF_vars(ResumeAfterYield("s1") \/ ClosedAtYield("s1"))

\* the registry under removals of queues that are not in it
NextUnregister ==
    \/ PublishNext({"p1"}, {RobotKey}, {"{}"}, UnMaxPub)
    \/ StreamNext(Sessions, {Viewer}, {NoKey})
    \/ \E s \in Sessions : DiscardAgain(s)
SpecUnregister == Init /\ [][NextUnregister]_vars

\* every kind of credentials on the three endpoints
NextAuth ==
    \/ PublishNext({"p1"}, ApiKeys, {"{}"}, AuMaxPub)
    \/ ReadNext(Readers, BrowserUsers, ApiKeys)
    \/ StreamNext({"s1"}, BrowserUsers, ApiKeys)
SpecAuth == Init /\ [][NextAuth]_vars

\* one session over more than a keepalive interval
NextKeepalive ==
    \/ Tick(KaHorizon)
    \/ PublishNext({"p1"}, {RobotKey}, {"{}"}, KaMaxPub)
    \/ StreamNext({"s1"}, {Viewer}, {NoKey})
    \/ TimeoutNext({"s1"})
SpecKeepalive == Init /\ [][NextKeepalive]_vars

\* ------------------------------------------------------------------ claims
ActiveStates == {"yield_init", "check", "wait", "yield_data", "check2", "yield_ka"}

IsQueueEvent(e) == e.kind = "data" /\ e.origin = "queue"
IsKeepalive(e) == e.kind = "keepalive"
Bodies(es) == [i \in 1..Len(es) |-> es[i].body]
\* the messages session s has emitted from its queue, in order
FromQueue(s) == Bodies(SelectSeq(emitted[s], IsQueueEvent))
FirstN(seq, n) == SubSeq(seq, 1, IF Len(seq) < n THEN Len(seq) ELSE n)

\* the key a user was issued (the one whose hash the table stores)
IssuedKeys == {RobotKey, RetiredKey}
ActiveKeys == {RobotKey}
ActiveSession(browser_user) == browser_user \in {u \in Users : u.is_active}

\* C1: for every stream session, the data events emitted from its queue,
\* followed by what is still pending in the queue, are exactly the publishes
\* made while it was registered and not dropped for it, in publish order.
C1_DeliveryOrder ==
    \A s \in Sessions : pc[s] \in ActiveStates => FromQueue(s) \o queue[s] = accepted[s]

C1_Witness ==
    \E s \in Sessions :
        /\ Len(FromQueue(s)) = 2
        /\ FromQueue(s)[1].payload # FromQueue(s)[2].payload

\* C2: every subscriber queue holds at most 10 pending messages.
C2_QueueBounded == \A s \in Sessions : Len(queue[s]) <= QueueMaxSize

C2_Witness ==
    \E s \in Sessions : Len(queue[s]) = QueueMaxSize /\ Len(offered[s]) > QueueMaxSize

\* a step that completes a publish, against the state before it
C3_PublishStep ==
    npub' # npub =>
        \E p \in PubSlots :
            /\ pub[p].pc = "auth"
            /\ pub'[p].status = 200
            /\ latest_payload' = pub[p].payload
            /\ latest_received_at' = now
            /\ \A s \in subscribers :
                 IF Len(queue[s]) = QueueMaxSize
                 THEN queue'[s] = queue[s]
                 ELSE /\ Len(queue'[s]) = Len(queue[s]) + 1
                      /\ SubSeq(queue'[s], 1, Len(queue[s])) = queue[s]
                      /\ queue'[s][Len(queue'[s])].payload = pub[p].payload
                      /\ queue'[s][Len(queue'[s])].received_at = now

\* C3: a publish broadcast while a registered queue holds 10 messages leaves
\* that queue unchanged, appends the envelope to every registered queue with
\* fewer than 10, updates the store and answers 200; a session that has
\* drained nothing holds the first 10 of the publishes offered to it, in order.
C3_DropNewest ==
    /\ [][C3_PublishStep]_vars
    /\ [](\A s \in subscribers :
            FromQueue(s) = <<>> => queue[s] = FirstN(offered[s], QueueMaxSize))

C3_Witness ==
    \E s, t \in subscribers :
        /\ FromQueue(s) = <<>>
        /\ Len(queue[s]) = QueueMaxSize
        /\ Len(offered[s]) = QueueMaxSize + 1
        /\ queue[t] # <<>>
        /\ queue[t][Len(queue[t])] = offered[s][QueueMaxSize + 1]
        /\ pub["p1"].status = 200

\* a step in which get-latest answers 200
C4_ReadStep ==
    \A r \in Readers :
        (rd[r].pc = "auth" /\ rd'[r].status = 200) =>
            /\ rd'[r].body.payload = published.payload
            /\ rd'[r].body.received_at = published.received_at

\* C4: a get-latest answers with the payload and the receipt time of the
\* latest completed publish, both from that same publish.
C4_ReadAfterPublish == [][C4_ReadStep]_vars

C4_Witness ==
    \E r \in Readers :
        /\ rd[r].status = 200
        /\ npub = 2
        /\ rd[r].body.payload = published.payload
        /\ rd[r].body.received_at = published.received_at
        /\ rd[r].body.payload # None

\* credentials that name no active principal, and the steps that answer them
ViewRejected(browser_user, api_key) ==
    ~ActiveSession(browser_user) /\ api_key \notin ActiveKeys

C5_RejectStep ==
    /\ \A p \in PubSlots :
         (pub[p].pc = "auth" /\ pub'[p].pc # "auth" /\ pub[p].api_key \notin IssuedKeys) =>
             (pub'[p].status = 401 /\ UNCHANGED relay)
    /\ \A r \in Readers :
         (rd[r].pc = "auth" /\ rd'[r].pc # "auth"
            /\ ViewRejected(rd[r].browser_user, rd[r].api_key)) =>
             (rd'[r].status = 401 /\ UNCHANGED relay)
    /\ \A s \in Sessions :
         (pc[s] = "auth" /\ pc'[s] # "auth"
            /\ ViewRejected(cred[s].browser_user, cred[s].api_key)) =>
             (pc'[s] = "rejected" /\ UNCHANGED relay)

C6_InactiveStep ==
    \A p \in PubSlots :
        (pub[p].pc = "auth" /\ pub'[p].pc # "auth" /\ pub[p].api_key \notin ActiveKeys) =>
            (pub'[p].status = 401 /\ UNCHANGED relay)

\* C6: a publish with the correct key of a user whose active flag is false is
\* answered 401 and mutates nothing.
C6_PublishNeedsActive == [][C6_InactiveStep]_vars

\* the acceptance policy, and the steps that answer get-latest and open-stream
Accepted(browser_user, api_key) == ActiveSession(browser_user) \/ api_key \in ActiveKeys

C7_AuthStep ==
    /\ \A r \in Readers :
         (rd[r].pc = "auth" /\ rd'[r].pc # "auth") =>
             /\ rd'[r].status = (IF Accepted(rd[r].browser_user, rd[r].api_key) THEN 200 ELSE 401)
    /\ \A s \in Sessions :
         (pc[s] = "auth" /\ pc'[s] # "auth") =>
             /\ (pc'[s] = "rejected") = ~Accepted(cred[s].browser_user, cred[s].api_key)
             /\ (pc'[s] \in ActiveStates) = Accepted(cred[s].browser_user, cred[s].api_key)

C8_ClosedUnregistered == \A s \in Sessions : pc[s] = "closed" => s \notin subscribers

C8_Witness ==
    /\ exitPath["s1"] = "cancel_wait"
    /\ exitPath["s2"] = "disconnect_timeout"
    /\ pc["s1"] = "closed"
    /\ pc["s2"] = "closed"

\* sessions whose generator has started and not finished
OpenConnections == {s \in Sessions : pc[s] \in ActiveStates}

\* C9: a queue is in the registry exactly while its session is active, so
\* the registered queues never outnumber the open stream connections.
C9_MembershipIffActive ==
    /\ \A s \in Sessions : (s \in subscribers) <=> (pc[s] \in ActiveStates)
    /\ Cardinality(subscribers) <= Cardinality(OpenConnections)

C9_Witness ==
    /\ subscribers = {"s2"}
    /\ pc["s1"] = "closed"
    /\ pc["s2"] = "wait"

\* a step that emits a keepalive
KeepaliveStep(s) == pc[s] = "check2" /\ pc'[s] = "yield_ka"

\* C10 as stated: a keepalive is emitted only when the session has emitted
\* nothing, and was started, at least 15 time units ago.
C10_Original ==
    [][\A s \in Sessions : KeepaliveStep(s) => now - lastEmitAt[s] >= KeepaliveInterval]_vars

\* C10 as amended: a keepalive is emitted only when the session has emitted
\* nothing for at least 2 time units (one wait timeout) and no keepalive for
\* at least 15 time units.
C10_KeepaliveSpacing ==
    [][\A s \in Sessions : KeepaliveStep(s) =>
          /\ now - lastEmitAt[s] >= WaitTimeout
          /\ lastKaAt[s] # NoTime => now - lastKaAt[s] >= KeepaliveInterval]_vars

C10_Witness ==
    \E s \in Sessions : Len(SelectSeq(emitted[s], IsKeepalive)) = 2

\* the keepalives session s has emitted
Keepalives(s) == SelectSeq(emitted[s], IsKeepalive)

\* C11: within one stream session two keepalives are at least 15 time units
\* apart: a timeout less than 15 units after the session's last keepalive
\* emits nothing, and a keepalive that follows another comes 15 units or
\* more after it.
C11_KeepaliveGap ==
    [][\A s \in Sessions :
          (pc[s] = "check2" /\ lastKaAt[s] # NoTime) =>
              /\ (now - lastKaAt[s] < KeepaliveInterval =>
                     Len(emitted'[s]) <= Len(emitted[s]))
              /\ (Len(Keepalives(s)') > Len(Keepalives(s)) =>
                     now - lastKaAt[s] >= KeepaliveInterval)]_vars

C11_Witness ==
    \E s \in Sessions :
        /\ pc[s] = "yield_ka"
        /\ emitted[s] = <<KeepaliveEvent, KeepaliveEvent>>
        /\ lastKaAt[s] = now

IsPrefix(a, b) == Len(a) <= Len(b) /\ SubSeq(b, 1, Len(a)) = a

\* the step in which the generator of session s starts
StartStep(s) == pc[s] = "auth" /\ pc'[s] \in ActiveStates

C12_StartStep ==
    \A s \in Sessions :
        /\ StartStep(s) =>
              IF latest_payload # None
              THEN /\ Len(emitted'[s]) = 1
                   /\ emitted'[s][1].kind = "data"
                   /\ emitted'[s][1].origin = "initial"
                   /\ emitted'[s][1].body.payload = latest_payload
                   /\ emitted'[s][1].body.received_at = latest_received_at
                   /\ queue'[s] = <<>>
              ELSE emitted'[s] = <<>>
        /\ (pc[s] \in ActiveStates /\ pc'[s] \in ActiveStates) =>
              /\ IsPrefix(emitted[s], emitted'[s])
              /\ \A i \in (Len(emitted[s]) + 1)..Len(emitted'[s]) :
                     emitted'[s][i].origin # "initial"

\* C12: a stream session that starts while a snapshot exists emits that
\* snapshot as its first event, before any queued envelope and any
\* keepalive, each session for itself; a session that starts before the
\* first publish emits no initial snapshot, then or later.
C12_InitialSnapshotFirst == [][C12_StartStep]_vars

C12_Witness ==
    /\ \A s \in Sessions :
          /\ pc[s] \in ActiveStates
          /\ emitted[s] # <<>>
          /\ emitted[s][1].origin = "initial"
          /\ emitted[s][1].body.payload = published.payload
    /\ Len(emitted["s1"]) = 2
    /\ Len(emitted["s2"]) = 1

Range(seq) == {seq[i] : i \in 1..Len(seq)}

\* what session s emitted at start-up is the snapshot of the latest publish
InitialIsLatest(s) ==
    /\ emitted[s] # <<>>
    /\ emitted[s][1].origin = "initial"
    /\ emitted[s][1].body.payload = published.payload
    /\ emitted[s][1].body.received_at = published.received_at

\* the latest publish found session s registered with a full queue
DroppedWhenFull(s) ==
    /\ offered[s] # <<>>
    /\ offered[s][Len(offered[s])] = published
    /\ published \notin Range(accepted[s])
    /\ Len(offered[s]) > QueueMaxSize

\* C13: however the start-up of a stream session and a publish interleave,
\* the session does not miss the publish: the latest published snapshot is
\* the initial snapshot the session emitted, or was put on its queue, unless
\* the queue was full.
C13_NoMissedPublish ==
    \A s \in Sessions :
        (pc[s] \in ActiveStates /\ npub > 0) =>
            \/ InitialIsLatest(s)
            \/ published \in Range(FromQueue(s) \o queue[s])
            \/ DroppedWhenFull(s)

C13_Witness ==
    /\ pub["p1"].pc = "auth"
    /\ pc["s1"] = "yield_init"
    /\ InitialIsLatest("s1")
    /\ queue["s1"] = <<>>
    /\ pc["s2"] \in ActiveStates
    /\ emitted["s2"] = <<>>
    /\ Len(queue["s2"]) = 1
    /\ queue["s2"][1] = published

\* an authenticated publish is being handled
PublishPending(p) ==
    /\ pub[p].pc = "auth"
    /\ IngestAuthorized(authenticate_slave_api_key(pub[p].api_key))
    /\ npub < LvMaxPub

PublishSucceeded(p) == pub[p].pc = "idle" /\ pub[p].status = 200

\* C14: every authenticated publish eventually completes with the success
\* response, whatever the registered subscribers do: none is required to
\* drain its queue or to come back from an emit.
C14_PublishCompletes == PublishPending("p1") ~> PublishSucceeded("p1")

C14_Witness ==
    /\ PublishSucceeded("p1")
    /\ npub = LvMaxPub
    /\ subscribers = {"s1"}
    /\ pc["s1"] = "yield_data"
    /\ Len(queue["s1"]) = QueueMaxSize
    /\ Len(offered["s1"]) = LvMaxPub
    /\ Len(accepted["s1"]) = LvMaxPub - 1

\* the answer to a publish is a function of its key alone
C15_ResponseStep ==
    \A p \in PubSlots :
        (pub[p].pc = "auth" /\ pub'[p].pc = "idle") =>
            pub'[p].status =
                (IF IngestAuthorized(authenticate_slave_api_key(pub[p].api_key))
                 THEN 200 ELSE 401)

\* C15: what a subscriber is delivered does not depend on the other
\* subscribers: its queue, hence what it emits, is at every moment the queue
\* it has in the run of the same publishes and the same steps of its own in
\* which it is the only subscriber, whether the others drain, overflow or
\* leave; and the answer to a publish does not depend on any subscriber.
C15_SubscribersIndependent ==
    /\ [](\A s \in Sessions : queue[s] = solo[s])
    /\ [][C15_ResponseStep]_vars

C15_Witness ==
    /\ pub["p1"].status = 200
    /\ pc["s1"] = "check"
    /\ Len(queue["s1"]) = QueueMaxSize
    /\ Len(offered["s1"]) > Len(accepted["s1"])
    /\ pc["s2"] = "yield_data"
    /\ Len(accepted["s2"]) = OvMaxPub
    /\ solo["s2"] # <<>>

\* the transport of session s is gone and its pending wait, if any, ends
\* within the horizon of the model
Disconnected(s) ==
    /\ s \in gone
    /\ pc[s] \in ActiveStates
    /\ deadline[s] <= StartTime + ClHorizon

\* C16: once the transport of a stream session has disconnected, the session
\* eventually reaches CLOSED and its queue is removed from the registry,
\* also when nothing is published any more: the wait on the queue times out
\* and the disconnect is noticed.  A cancellation is the step that closes.
C16_DisconnectCloses ==
    /\ Disconnected("s1") ~> (pc["s1"] = "closed" /\ "s1" \notin subscribers)
    /\ [][\A s \in Sessions :
             (pc[s] \in {"wait", "check", "check2"} /\ exitPath'[s] \in {"cancel_wait", "cancel_check"})
                 => (pc'[s] = "closed" /\ s \notin subscribers')]_vars

C16_Witness ==
    /\ pc["s1"] = "closed"
    /\ exitPath["s1"] = "disconnect_timeout"
    /\ npub = 0
    /\ "s1" \notin subscribers
    /\ now >= StartTime + WaitTimeout

\* a step in which get-latest answers
C17_LatestStep ==
    \A r \in Readers :
        (rd[r].pc = "auth" /\ rd'[r].pc = "idle") =>
            /\ UNCHANGED relay
            /\ rd'[r].status = 200 =>
                  IF npub = 0
                  THEN rd'[r].body.received_at = NoTime /\ rd'[r].body.payload = None
                  ELSE /\ rd'[r].body.received_at = latest_received_at
                       /\ rd'[r].body.payload = latest_payload
                       /\ rd'[r].body.payload \in Payloads

\* C17: get-latest changes neither the snapshot store, nor the registry,
\* nor any queue; before the first successful publish it returns receipt
\* time and payload both absent, after one the stored values, the empty
\* object included.
C17_LatestReadOnly == [][C17_LatestStep]_vars

C17_Witness ==
    \E r \in Readers :
        /\ rd[r].status = 200
        /\ rd[r].pc = "idle"
        /\ rd[r].body.payload = "{}"
        /\ rd[r].body.received_at = latest_received_at
        /\ latest_payload = "{}"
        /\ subscribers # {}

\* C18: every data event sent on a stream, the initial one included,
\* carries receipt time, publisher and payload, and the initial snapshot of
\* a session is the envelope that was broadcast for that publish.
C18_InitialIsEnvelope ==
    \A s \in Sessions :
        \A i \in 1..Len(emitted[s]) :
            emitted[s][i].kind = "data" =>
                /\ emitted[s][i].body.received_at # NoTime
                /\ emitted[s][i].body.payload # None
                /\ emitted[s][i].body.publisher # Absent
                /\ (emitted[s][i].origin = "initial" /\ pc[s] = "yield_init") =>
                       emitted[s][i].body = published

\* C19: removing a queue that is not in the registry, already removed or
\* removed twice in a row, raises no error and leaves the registry and the
\* membership of every other queue unchanged.
C19_UnregisterIdempotent ==
    /\ [](probe.times > 0 => (~probe.raised /\ probe.after = probe.before))
    /\ [][probe' # probe =>
             /\ subscribers' = subscribers
             /\ \A t \in Sessions : (t \in subscribers') = (t \in subscribers)
             /\ Discard(subscribers', probe'.handle) = subscribers']_vars

C19_Witness ==
    /\ probe.handle = "s1"
    /\ probe.times = 2
    /\ pc["s1"] = "closed"
    /\ probe.before = {"s2"}
    /\ subscribers = {"s2"}

\* C20: CLOSED is terminal: a stream session that has left its loop, on a
\* disconnect or a cancellation, stays closed and emits no data event and
\* no keepalive, also when it left messages pending in its queue.
C20_ClosedIsTerminal ==
    /\ [](\A s \in Sessions : pc[s] = "closed" => emitted[s] = <<>>)
    /\ [][\A s \in Sessions :
             pc[s] = "closed" => (pc'[s] = "closed" /\ emitted'[s] = emitted[s])]_vars

C20_Witness ==
    /\ pc["s1"] = "closed"
    /\ leftPending["s1"]
    /\ exitPath["s1"] = "disconnect_top"
    /\ pc["s2"] = "closed"
    /\ leftPending["s2"]
    /\ exitPath["s2"] = "cancel_wait"

\* the tasks that are suspended at an await or a yield
SuspendedTasks ==
    {s \in Sessions : pc[s] \in ActiveStates \cup {"auth"}}
        \cup {p \in PubSlots : pub[p].pc = "auth"}
        \cup {r \in Readers : rd[r].pc = "auth"}

\* C21: the registry guard is held by at most one task at a time and by no
\* task that is emitting an event, waiting on its queue or its timeout or
\* on the authenticator: it is free whenever a task is suspended, so a
\* stalled subscriber never blocks register, unregister or broadcast.
C21_GuardNotHeldAcrossWaits ==
    /\ Cardinality(lock_holders) <= 1
    /\ lock_holders \cap SuspendedTasks = {}
    /\ LockFree(lock_holders)

C21_Witness ==
    /\ pc["s1"] = "yield_init"
    /\ emitted["s1"][1].body.payload = Samples[1]
    /\ Len(queue["s1"]) = QueueMaxSize
    /\ pc["s2"] = "closed"
    /\ npub = OvMaxPub
    /\ pub["p1"].status = 200
    /\ LockFree(lock_holders)

\* a step that changes the snapshot store
C22_StoreStep ==
    /\ (latest_payload' # latest_payload \/ latest_received_at' # latest_received_at) =>
          \E p \in PubSlots : pub[p].pc = "auth" /\ pub'[p].status = 200
    /\ latest_payload # None => latest_payload' # None

\* C22: the snapshot store is absent until the first successful publish and
\* never absent after it; payload and receipt time are both absent or both
\* present; only a successful publish changes them.
C22_StoreLifecycle ==
    /\ []((latest_payload = None) = (latest_received_at = NoTime))
    /\ []((npub = 0) = (latest_payload = None))
    /\ [][C22_StoreStep]_vars

C22_Witness ==
    /\ npub = 1
    /\ latest_payload = "{}"
    /\ latest_received_at = StartTime
    /\ pub["p1"].status = 401
    /\ rd["r1"].status = 200
    /\ pc["s1"] = "closed"

\* every message put on the queue of session s so far, in order
Enqueued(s) == FromQueue(s) \o queue[s]

\* how many times a sequence of messages holds the publish of payload d
Occurrences(seq, d) == Cardinality({i \in 1..Len(seq) : seq[i].payload = d})

IsData(e) == e.kind = "data"

\* C23: each publish is put at most once on each subscriber queue; a session
\* emits a given publish at most twice, and twice only when it was both the
\* initial snapshot of the session and an envelope put on its queue.
C23_NoOtherDuplicate ==
    \A s \in Sessions : pc[s] \in ActiveStates =>
        \A d \in Range(Samples) :
            /\ Occurrences(Enqueued(s), d) <= 1
            /\ Occurrences(Bodies(SelectSeq(emitted[s], IsData)), d) <= 2
            /\ Occurrences(Bodies(SelectSeq(emitted[s], IsData)), d) = 2 =>
                  /\ emitted[s][1].origin = "initial"
                  /\ emitted[s][1].body.payload = d
                  /\ Occurrences(Enqueued(s), d) = 1

C23_Witness ==
    /\ pc["s1"] = "yield_data"
    /\ Len(emitted["s1"]) = 3
    /\ emitted["s1"][1].origin = "initial"
    /\ emitted["s1"][1].body.payload = Samples[2]
    /\ emitted["s1"][2].body.payload = Samples[3]
    /\ emitted["s1"][3].body.payload = Samples[4]
    /\ pc["s2"] = "yield_data"
    /\ Len(emitted["s2"]) = 4

Last(seq) == seq[Len(seq)]

\* C24: with several publishes in flight, the order in which they overwrite
\* the snapshot store is the order in which their envelopes are put on every
\* queue: the last envelope put on a queue that dropped nothing carries the
\* stored payload and receipt time, which are what get-latest returns.
C24_StoreOrderIsQueueOrder ==
    \A s \in Sessions :
        (pc[s] \in ActiveStates /\ Enqueued(s) # <<>> /\ accepted[s] = offered[s]) =>
            /\ Last(Enqueued(s)).payload = latest_payload
            /\ Last(Enqueued(s)).received_at = latest_received_at
            /\ LatestBody(latest_payload, latest_received_at).payload
                  = Last(Enqueued(s)).payload
            /\ LatestBody(latest_payload, latest_received_at).received_at
                  = Last(Enqueued(s)).received_at

C24_Witness ==
    /\ npub = 2
    /\ pub["p1"].status = 200 /\ pub["p1"].pc = "idle"
    /\ pub["p2"].status = 200 /\ pub["p2"].pc = "idle"
    /\ Len(Enqueued("s1")) = 2
    /\ Enqueued("s1")[1].payload = "{v:1}"
    /\ Enqueued("s1")[2].payload = "{}"
    /\ rd["r1"].status = 200
    /\ rd["r1"].body.payload = "{}"

\* a step of session s that goes on streaming: the queue loses a message
\* only from its front and only into the event emitted in that step
C25_DrainStep ==
    \A s \in Sessions :
        (pc[s] \in ActiveStates /\ pc'[s] \in ActiveStates) =>
            IF pc[s] = "wait" /\ pc'[s] = "yield_data"
            THEN /\ queue[s] # <<>>
                 /\ queue'[s] = Tail(queue[s])
                 /\ emitted'[s] = Append(emitted[s], DataEvent(Head(queue[s]), "queue"))
            ELSE IsPrefix(queue[s], queue'[s])

\* the n-th envelope put on the queue of s1 has been emitted, or s1 is closed
DeliveredOrClosed(n) == pc["s1"] = "closed" \/ Len(FromQueue("s1")) >= n

Registered(s) == s \in subscribers /\ pc[s] \in ActiveStates

\* a step that puts envelopes on the queue of s finds it registered and
\* leaves it registered
C26_EnqueueStep ==
    \A s \in Sessions :
        (queue'[s] # queue[s] /\ IsPrefix(queue[s], queue'[s])) =>
            Registered(s) /\ Registered(s)'

\* C26: a queue receives envelopes only while it is registered: no publish
\* puts an envelope on a queue before its session registered it or after
\* its session unregistered it, whatever the interleaving of the
\* unregistration and the broadcast.
C26_EnqueueOnlyWhileRegistered ==
    /\ [](\A s \in Sessions : ~Registered(s) => queue[s] = <<>>)
    /\ [][C26_EnqueueStep]_vars

\* s1 left without having been offered anything, the publish came after
\* that and reached s2, whose request was in flight or registered
C26_Witness ==
    /\ pc["s1"] = "closed"
    /\ emitted["s1"] = <<>> /\ ~leftPending["s1"]
    /\ npub = 1 /\ pub["p1"].status = 200
    /\ queue["s1"] = <<>>
    /\ Registered("s2")
    /\ Len(accepted["s2"]) = 1
    /\ queue["s2"] = accepted["s2"]

====
